---- MODULE Spec2Model ----
(***************************************************************************)
(* Olive Young ranking crawler: the scroll-capture loops, the image        *)
(* stitcher and the category orchestration, as state machines.             *)
(*                                                                         *)
(*   SpecScroll  the three scroll-capture loops, one loop iteration per    *)
(*               step, against a container that is missing, static or      *)
(*               reports arbitrary offsets                                 *)
(*   SpecMerge   merge_screenshots applied to bounded frame sequences      *)
(*   SpecRetry   the retry decorators around an operation that may raise   *)
(*   Spec        capture_all_rankings / run / main over the categories,    *)
(*               OliveYoungCrawlerV2.capture_all, and the legacy crawler's *)
(*               construction and capture_pages                            *)
(*   SpecNavigate   one call of capture_category_ranking, the              *)
(*               blocking-page loop round by round                         *)
(*   SpecMergeAndCrawl   the merge on its own and the merge in the crawl   *)
(*   SpecCategory   the processing of one category, with screenshot and    *)
(*               scroll failures inside the capture loops                  *)
(*   SpecSession    capture_all_rankings called repeatedly on one crawler  *)
(***************************************************************************)
EXTENDS Integers, Sequences, FiniteSets, TLC

VARIABLES cap, mrg, run, dec

vars == <<cap, mrg, run, dec>>

Min(a, b) == IF a < b THEN a ELSE b
Max(a, b) == IF a > b THEN a ELSE b

(***************************************************************************)
(* Bounds of the model.                                                    *)
(***************************************************************************)
\* largest max_scrolls argument tried by the step-level loops
MaxScrolls == 4
\* longest frame sequence handed to merge_screenshots in SpecMerge
MaxFrames == 10
\* largest max_attempts given to a retry decorator
MaxAttempts == 3
\* calls of capture_all_rankings a script makes on one crawler
MaxCalls == 2

(***************************************************************************)
(* The scrollable container.                                               *)
(***************************************************************************)
\* client (viewport) heights of the containers tried
ClientHeights == {800}
\* scroll heights of the static containers tried
ScrollHeights == {500, 800, 2000, 3200}
\* offsets a container that never settles may report
FreeOffsets == {0, 800, 1200}

\* a container description: exists = FALSE is a selector resolving to nothing;
\* mode "static" clamps scrollTop as a browser does, mode "free" may report any
\* offset of FreeOffsets after a scroll command
Containers ==
    [exists : {FALSE}, mode : {"static"}, scrollHeight : {800}, clientHeight : {800}]
    \cup [exists : {TRUE}, mode : {"static"}, scrollHeight : ScrollHeights,
          clientHeight : ClientHeights]
    \cup [exists : {TRUE}, mode : {"free"}, scrollHeight : {2000}, clientHeight : {800}]

\* the largest scrollTop a browser lets a static container take
MaxScrollTop(c) == Max(c.scrollHeight - c.clientHeight, 0)

\* mutant: a scroll command moves by two client heights
ScrollStaticDouble(c, top) == Min(top + 2 * c.clientHeight, MaxScrollTop(c))

\* mutant: the offset is not clamped to the scrollable range
ScrollStaticUnclamped(c, top) == top + c.clientHeight

\* container.scrollTop += container.clientHeight on a static container
ScrollStatic(c, top) == Min(top + c.clientHeight, MaxScrollTop(c))

\* the values after_scroll may take for one scroll command
ScrollResults(c, top) ==
    IF c.mode = "static" THEN {ScrollStatic(c, top)} ELSE FreeOffsets

(***************************************************************************)
(* The scroll-capture loops.  The loop state is a record:                  *)
(*   screenshots     offsets at which the appended frames were taken       *)
(*   scroll_count, last_scroll_top   the loop's locals                     *)
(*   scrollTop       the container's current offset                        *)
(*   scrollCmds      scroll commands issued so far                         *)
(*   pc              "start", "loop", "done"; raised = an exception was    *)
(*                   caught by the handler around the loop                 *)
(***************************************************************************)
Variants == {"manager", "v2", "legacy"}

\* mutant: the offset remembered before the first scroll is 0
CapStartAtZero(variant, c, max_scrolls) ==
    [variant |-> variant, container |-> c, max_scrolls |-> max_scrolls,
     pc |-> "start", screenshots |-> <<>>, scroll_count |-> 0,
     last_scroll_top |-> 0, scrollTop |-> 0, scrollCmds |-> 0,
     raised |-> FALSE]

CapStart(variant, c, max_scrolls) ==
    [variant |-> variant, container |-> c, max_scrolls |-> max_scrolls,
     pc |-> "start", screenshots |-> <<>>, scroll_count |-> 0,
     last_scroll_top |-> -1, scrollTop |-> 0, scrollCmds |-> 0,
     raised |-> FALSE]

CapIdle == [CapStart("manager", CHOOSE c \in Containers : ~c.exists, 0)
                EXCEPT !.pc = "idle"]

\* mutant: the container check is skipped
CapEnterUnchecked(s) ==
    IF s.variant = "legacy"
    THEN [s EXCEPT !.pc = "loop", !.screenshots = <<s.scrollTop>>]
    ELSE [s EXCEPT !.pc = "loop"]

\* the container check and the reading of its metrics, before the loop
\* (the legacy loop also saves the initial screenshot here)
CapEnter(s) ==
    IF ~s.container.exists
    THEN [s EXCEPT !.pc = "done"]
    ELSE IF s.variant = "legacy"
         THEN [s EXCEPT !.pc = "loop", !.screenshots = <<s.scrollTop>>]
         ELSE [s EXCEPT !.pc = "loop"]

\* mutant: the loop never sees the bottom
ReachedBottomNever(after, last) == FALSE

\* the stop test of one iteration: the offset read after this scroll equals the
\* offset read after the previous one
ReachedBottom(after, last) == after = last

\* mutant: last_scroll_top is never updated
ManagerIterStale(s, after) ==
    [s EXCEPT !.screenshots = Append(@, s.scrollTop),
              !.scrollTop = after,
              !.scrollCmds = @ + 1,
              !.scroll_count = @ + 1,
              !.pc = IF after = s.last_scroll_top THEN "done" ELSE "loop"]

\* one iteration of ScreenshotManager.capture_scrolling_screenshots and of
\* OliveYoungCrawlerV2._capture_scrolling_screenshots: screenshot, scroll, test
ManagerIter(s, after) ==
    [s EXCEPT !.screenshots = Append(@, s.scrollTop),
              !.scrollTop = after,
              !.scrollCmds = @ + 1,
              !.scroll_count = @ + 1,
              !.last_scroll_top = after,
              !.pc = IF ReachedBottom(after, s.last_scroll_top) THEN "done" ELSE "loop"]

\* mutant: the legacy iteration takes its screenshot before scrolling
LegacyIterScreenshotFirst(s, after) ==
    [s EXCEPT !.screenshots = Append(@, s.scrollTop),
              !.scrollTop = after,
              !.scrollCmds = @ + 1,
              !.scroll_count = @ + 1,
              !.last_scroll_top = after,
              !.pc = IF ReachedBottom(after, s.last_scroll_top) THEN "done" ELSE "loop"]

\* one iteration of OliveYoungCrawler._scroll_and_capture: scroll, screenshot, test
LegacyIter(s, after) ==
    [s EXCEPT !.scrollTop = after,
              !.scrollCmds = @ + 1,
              !.scroll_count = @ + 1,
              !.screenshots = Append(@, after),
              !.last_scroll_top = after,
              !.pc = IF ReachedBottom(after, s.last_scroll_top) THEN "done" ELSE "loop"]

LoopIter(s, after) ==
    IF s.variant = "legacy" THEN LegacyIter(s, after) ELSE ManagerIter(s, after)

\* mutant: one iteration too many
LoopGuardInclusive(s) == s.scroll_count <= s.max_scrolls

\* the while condition
LoopGuard(s) == s.scroll_count < s.max_scrolls

\* mutant: the handler returns no frame
ScreenshotRaisedEmpty(s) == [s EXCEPT !.pc = "done", !.raised = TRUE,
                                      !.screenshots = <<>>]

\* save_screenshot raised in an iteration of the manager or v2 loop: the handler
\* around the loop logs and returns the frames appended so far
ScreenshotRaised(s) == [s EXCEPT !.pc = "done", !.raised = TRUE]

\* the scroll script raised in an iteration of the manager or v2 loop: the
\* frame of this iteration is already appended
ScrollRaised(s) ==
    [s EXCEPT !.pc = "done", !.raised = TRUE,
              !.scrollCmds = @ + 1,
              !.screenshots = Append(@, s.scrollTop)]

\* the frame sequence the caller receives
Returned(s) == s.screenshots

(***************************************************************************)
(* The image stitcher.  A frame is [id, h, w]: the per-step screenshot     *)
(* file and the size of the image in it.  The merge state is a record:     *)
(*   screenshots, overlap_pixels   the arguments                           *)
(*   temp_dir      the session's temp directory exists (made when the      *)
(*                 session starts; no statement removes it)                *)
(*   tempFiles     per-step files present in the temp directory            *)
(*   unreadable    ids of the files Image.open fails on                    *)
(*   saveFails     merged.save raises                                      *)
(*   stuck         ids of files unlink fails on                            *)
(*   images, canvas, pasted, merged_path, written   what the merge did     *)
(***************************************************************************)
FrameHeights == {100, 200}
FrameWidths == {375}
Overlaps == {0, 50, 100}

RECURSIVE SumHeights(_)
SumHeights(images) ==
    IF images = <<>> THEN 0 ELSE Head(images).h + SumHeights(Tail(images))

\* mutant: only the last frame is dropped
TrimOne(screenshots) ==
    IF Len(screenshots) > 2
    THEN SubSeq(screenshots, 1, Len(screenshots) - 1)
    ELSE screenshots

\* screenshots[:-2] when there are more than 2
Trim(screenshots) ==
    IF Len(screenshots) > 2
    THEN SubSeq(screenshots, 1, Len(screenshots) - 2)
    ELSE screenshots

\* mutant: the overlap adjustment is forgotten
TotalHeightNoOverlap(images, overlap_pixels) == SumHeights(images)

\* total_height, with the overlap adjustment
TotalHeight(images, overlap_pixels) ==
    IF overlap_pixels > 0 /\ Len(images) > 1
    THEN SumHeights(images) - overlap_pixels * (Len(images) - 1)
    ELSE SumHeights(images)

\* the paste loop: the y_offset each image is pasted at
RECURSIVE PasteFrom(_, _, _, _)
PasteFrom(images, i, y_offset, overlap_pixels) ==
    IF i > Len(images) THEN <<>>
    ELSE <<[id |-> images[i].id, y |-> y_offset, h |-> images[i].h]>> \o
         PasteFrom(images, i + 1,
                   y_offset + images[i].h
                     - (IF overlap_pixels > 0 /\ i < Len(images)
                        THEN overlap_pixels ELSE 0),
                   overlap_pixels)

\* mutant: the paste cursor ignores the overlap
PasteNoOverlap(images, overlap_pixels) == PasteFrom(images, 1, 0, 0)

Paste(images, overlap_pixels) == PasteFrom(images, 1, 0, overlap_pixels)

\* the files the cleanup after a successful merge is given
CleanupArgument(screenshots, images) == images

\* mutant: the cleanup empties the temp directory
CleanupTempFilesAll(files, tempFiles, stuck) == {}

\* _cleanup_temp_files: unlink each file, a failing unlink is only logged
CleanupTempFiles(files, tempFiles, stuck) ==
    tempFiles \ ({files[i].id : i \in 1..Len(files)} \ stuck)

NoCanvas == [width |-> 0, height |-> 0]

MrgStart(variant, screenshots, overlap_pixels, unreadable, saveFails, stuck) ==
    [pc |-> "call", variant |-> variant, screenshots |-> screenshots,
     overlap_pixels |-> overlap_pixels,
     temp_dir |-> TRUE,
     tempFiles |-> {screenshots[i].id : i \in 1..Len(screenshots)},
     unreadable |-> unreadable, saveFails |-> saveFails, stuck |-> stuck,
     images |-> <<>>, canvas |-> NoCanvas, pasted |-> <<>>,
     merged_path |-> "None", written |-> FALSE]

MrgIdle == [MrgStart("manager", <<>>, 0, {}, FALSE, {}) EXCEPT !.pc = "idle"]

\* mutant: the handler also removes the per-step files
MergeFailedCleans(m) == [m EXCEPT !.pc = "done", !.tempFiles = {}]

\* the except branch of the merge: log and return None (False in the legacy
\* crawler); nothing is raised to the caller and no file is removed
MergeFailed(m) == [m EXCEPT !.pc = "done"]

\* merge_screenshots of ScreenshotManager and of OliveYoungCrawlerV2, and
\* OliveYoungCrawler._merge_screenshots, from call to return
MergeScreenshots(m) ==
    LET images == Trim(m.screenshots)
        overlap == IF m.variant = "manager" THEN m.overlap_pixels ELSE 0
        total_height == TotalHeight(images, overlap)
        opened == \A i \in 1..Len(images) : images[i].id \notin m.unreadable
    IN  IF m.screenshots = <<>>
        THEN [m EXCEPT !.pc = "done"]
        ELSE IF ~opened \/ total_height < 0
        THEN MergeFailed(m)
        ELSE IF m.saveFails
        THEN MergeFailed([m EXCEPT !.images = images,
                           !.canvas = [width |-> images[1].w, height |-> total_height],
                           !.pasted = Paste(images, overlap)])
        ELSE [m EXCEPT !.pc = "done", !.images = images,
                       !.canvas = [width |-> images[1].w, height |-> total_height],
                       !.pasted = Paste(images, overlap),
                       !.written = TRUE,
                       !.merged_path = "merged",
                       !.tempFiles =
                           IF m.variant = "legacy" THEN @
                           ELSE CleanupTempFiles(
                                    CleanupArgument(m.screenshots, images),
                                    @, m.stuck)]

(***************************************************************************)
(* The refactored crawler: construction, restart_browser,                  *)
(* capture_category_ranking under its retry decorator,                     *)
(* capture_all_rankings, run, cleanup and main.  The state is a record:    *)
(*   entry        "main": main() -> run() -> capture_all_rankings();       *)
(*                "direct": capture_all_rankings() called by a script      *)
(*   targets, i   the selected categories and the one being processed      *)
(*   driver, live, created      self.driver, the drivers not yet quit      *)
(*   temp_profile_dir, dirs, dirsCreated   the profile directories         *)
(*   call, attempt   1st or 2nd call of capture_category_ranking for the   *)
(*                category, and the decorator's attempt within it          *)
(*   waits, blocked   rounds of the blocking-page loop after the attempt's *)
(*                driver.get, and whether the title is the interstitial    *)
(*                (after the loop: when the loop ended)                    *)
(*   container    what the loaded page holds                               *)
(*   first, retry    the two captures of the current attempt               *)
(*   captures, lowRestarts, merges   what the current attempt did          *)
(*   catCaptures  the scroll captures made for the current category        *)
(*   writes       how often each merged output path was written            *)
(*   calls        the calls of capture_all_rankings made on this crawler   *)
(*   faults       what the browser of this run may raise inside a capture  *)
(*                loop: nothing in the crawl-wide specification, a         *)
(*                screenshot or scroll failure in SpecCategory             *)
(*   result       the value the call returned                              *)
(*   results, summary, exit_code                                           *)
(***************************************************************************)
MIN_EXPECTED_SCREENSHOTS == 20
CaptureMaxScrolls == 50
MergeOverlap == 50
RetryAttempts == 3
\* max_wait_attempts of the blocking-page loop
MaxWaitAttempts == 5
\* the emulated window height and width
ViewportHeight == 812
ViewportWidth == 375

Categories == <<"all", "bodycare">>

\* capture_all_rankings' filter: the categories named, in table order
TargetChoices == {<<>>, <<"all">>, <<"bodycare">>, <<"all", "bodycare">>}

\* a page without the ranking container
NoPage == [exists |-> FALSE, mode |-> "static", scrollHeight |-> 800, clientHeight |-> 800]

\* what a loaded ranking page may hold: no container, or a static list
\* yielding 2, 5, 20 or 50 frames
PageContainers ==
    {NoPage}
    \cup [exists : {TRUE}, mode : {"static"},
          scrollHeight : {ViewportHeight, 5 * ViewportHeight,
                          20 * ViewportHeight, 60 * ViewportHeight},
          clientHeight : {ViewportHeight}]

\* the whole loop on a static container, iteration by iteration
RECURSIVE RunLoop(_)
RunLoop(s) ==
    IF s.pc = "loop" /\ LoopGuard(s)
    THEN RunLoop(LoopIter(s, ScrollStatic(s.container, s.scrollTop)))
    ELSE [s EXCEPT !.pc = "done"]

\* capture_scrolling_screenshots from call to return
CaptureScrollingScreenshots(c, max_scrolls) ==
    RunLoop(CapEnter(CapStart("manager", c, max_scrolls)))

\* the exceptions a capture may meet inside its loop: none, or save_screenshot
\* or the scroll script raising in the iteration numbered at (from 0)
NoFault == [kind |-> "none", at |-> 0]
Faults == {NoFault} \cup [kind : {"screenshot", "scroll"}, at : {0, 25}]

\* the whole loop on a static container when the fault strikes
RECURSIVE RunLoopFaulty(_, _)
RunLoopFaulty(s, fault) ==
    IF s.pc = "loop" /\ LoopGuard(s)
    THEN IF fault.kind = "screenshot" /\ s.scroll_count = fault.at
         THEN ScreenshotRaised(s)
         ELSE IF fault.kind = "scroll" /\ s.scroll_count = fault.at
         THEN ScrollRaised(s)
         ELSE RunLoopFaulty(LoopIter(s, ScrollStatic(s.container, s.scrollTop)),
                            fault)
    ELSE [s EXCEPT !.pc = "done"]

\* capture_scrolling_screenshots from call to return, with the fault
FaultyCapture(c, max_scrolls, fault) ==
    RunLoopFaulty(CapEnter(CapStart("manager", c, max_scrolls)), fault)

\* OliveYoungCrawlerV2._capture_scrolling_screenshots and
\* OliveYoungCrawler._scroll_and_capture from call to return
V2CaptureScrollingScreenshots(c, max_scrolls) ==
    RunLoop(CapEnter(CapStart("v2", c, max_scrolls)))

ScrollAndCapture(c, max_scrolls) ==
    RunLoop(CapEnter(CapStart("legacy", c, max_scrolls)))

\* what the orchestration keeps of a capture
NoCapture ==
    [ran |-> FALSE, tag |-> "none", n |-> 0, scrollCmds |-> 0, container |-> NoPage,
     fault |-> NoFault]
Captured(tag, s) ==
    [ran |-> TRUE, tag |-> tag, n |-> Len(Returned(s)), scrollCmds |-> s.scrollCmds,
     container |-> s.container, fault |-> NoFault]

\* the same for a capture that met the fault (a fault that never struck
\* leaves no trace)
CapturedWith(tag, s, fault) ==
    [Captured(tag, s) EXCEPT !.fault = IF s.raised THEN fault ELSE NoFault]

\* the per-step files of a capture: {category}_realtime[_retry]_{index}.png
FramesOf(category, c) ==
    [k \in 1..c.n |-> [id |-> <<category, c.tag, k>>,
                       h |-> ViewportHeight, w |-> ViewportWidth]]

\* how often each merged output path of the session was written
NoWrites == [c \in {"all", "bodycare", "ranking"} |-> 0]

RunStart(entry, targets) ==
    [pc |-> "begin", crawler |-> "refactored",
     entry |-> entry, targets |-> targets, i |-> 1,
     driver |-> 1, live |-> {1}, created |-> 1,
     temp_profile_dir |-> 1, dirs |-> {1}, dirsCreated |-> 1,
     call |-> 0, attempt |-> 0, waits |-> 0, blocked |-> FALSE,
     container |-> NoPage,
     first |-> NoCapture, retry |-> NoCapture, merged |-> NoCapture,
     captures |-> 0, lowRestarts |-> 0, retryRaised |-> FALSE, merges |-> 0,
     catCaptures |-> 0, writes |-> NoWrites, calls |-> 1,
     faults |-> {NoFault},
     result |-> "None", produced |-> {},
     results |-> {}, summary |-> {}, summaryWritten |-> FALSE,
     raised |-> FALSE, cleaned |-> FALSE, exit_code |-> -1]

\* OliveYoungCrawlerV2.__init__ creates no driver and no profile directory;
\* its main() calls capture_all and ends
V2Start(targets) ==
    [RunStart("direct", targets) EXCEPT
        !.crawler = "v2", !.driver = 0, !.live = {}, !.created = 0,
        !.temp_profile_dir = 0, !.dirs = {}, !.dirsCreated = 0]

\* the two pages of the legacy crawler's capture_pages
LegacyPages == <<"ranking", "bodycare">>

\* the legacy OliveYoungCrawler.__init__ after super().__init__ returned:
\* SeleniumBot.__init__ has created a driver and stored it in self.driver
LegacyStart ==
    [RunStart("direct", LegacyPages) EXCEPT
        !.crawler = "legacy", !.pc = "constructing",
        !.temp_profile_dir = 0, !.dirs = {}, !.dirsCreated = 0]

RunIdle == [RunStart("direct", <<>>) EXCEPT !.pc = "idle"]

RestartOutcomes == {"ok", "create_raises", "window_raises"}

\* what may go wrong in a merge called by a crawl: nothing, Image.open on the
\* first frame, merged.save
MergeFailures == {"none", "open", "save"}

\* restart_browser: quit the current driver, remove the profile directory (a
\* failing rmtree is only logged), make a new directory, create a new driver.
\* "create_raises": webdriver.Chrome (or the driver manager) raises, self.driver
\* stays the driver just quit; "window_raises": set_window_size raises on the new
\* driver.  Both propagate.
RestartBrowser(r, outcome, rmtreeFails) ==
    LET quit == [r EXCEPT !.live = @ \ {r.driver}]
        cleared == IF quit.temp_profile_dir # 0 /\ ~rmtreeFails
                   THEN [quit EXCEPT !.dirs = @ \ {quit.temp_profile_dir}]
                   ELSE quit
        fresh == [cleared EXCEPT !.dirsCreated = @ + 1,
                                 !.dirs = @ \cup {cleared.dirsCreated + 1},
                                 !.temp_profile_dir = cleared.dirsCreated + 1]
    IN  IF outcome = "create_raises" THEN fresh
        ELSE [fresh EXCEPT !.created = @ + 1,
                           !.driver = fresh.created + 1,
                           !.live = @ \cup {fresh.created + 1}]

RestartRaises(outcome) == outcome # "ok"

\* the locals of a call of capture_category_ranking, before it starts and
\* after it is over
NoCall(r) ==
    [r EXCEPT !.call = 0, !.attempt = 0, !.waits = 0, !.blocked = FALSE,
              !.container = NoPage,
              !.first = NoCapture, !.retry = NoCapture, !.merged = NoCapture,
              !.captures = 0, !.lowRestarts = 0, !.retryRaised = FALSE,
              !.merges = 0, !.result = "None"]

\* the start of a call of capture_category_ranking
NewCall(r, call) == [NoCall(r) EXCEPT !.pc = "attempt", !.call = call]

\* an exception leaves capture_all_rankings
Abort(r) == [NoCall(r) EXCEPT !.pc = "aborted", !.raised = TRUE]

\* the category's processing is over: next category or the summary
Advance(r) ==
    IF r.i < Len(r.targets)
    THEN [NoCall(r) EXCEPT !.pc = "category", !.i = @ + 1, !.catCaptures = 0]
    ELSE [NoCall(r) EXCEPT !.pc = "summary", !.catCaptures = 0]

\* mutant: an empty capture sends the attempt back to its start
AfterFirstCaptureAgain(n) ==
    IF n = 0 THEN "attempt"
    ELSE IF n < MIN_EXPECTED_SCREENSHOTS THEN "lowcount" ELSE "merge"

\* mutant: a capture of exactly the threshold counts as low
AfterFirstCaptureInclusive(n) ==
    IF n = 0 THEN "returned"
    ELSE IF n <= MIN_EXPECTED_SCREENSHOTS THEN "lowcount" ELSE "merge"

\* where capture_category_ranking goes after the first capture of n frames:
\* return None, the low-count retry, or straight to the merge
AfterFirstCapture(n) ==
    IF n = 0 THEN "returned"
    ELSE IF n < MIN_EXPECTED_SCREENSHOTS THEN "lowcount" ELSE "merge"

\* mutant: the first capture is merged whatever the retry returned
SelectFirst(first, retry) == first

\* mutant: the longer of the two captures is kept
SelectLonger(first, retry) ==
    IF retry.ran /\ retry.n > first.n THEN retry ELSE first

\* lines 592-602: the retry capture replaces the first one when it returned
\* any frame
SelectScreenshots(first, retry) ==
    IF retry.ran /\ retry.n >= MIN_EXPECTED_SCREENSHOTS THEN retry
    ELSE IF retry.ran /\ retry.n > 0 THEN retry
    ELSE first

\* the blocking-page loop of capture_category_ranking, lines 512-521: while
\* fewer than max_wait_attempts rounds were made and the title is the
\* interstitial, sleep, refresh, sleep and go round
BlockingLoopGuard(r) == r.waits < MaxWaitAttempts /\ r.blocked

\* one round: the refresh brings the interstitial again, or the page
WaitAndRefresh(r, blockedAfter) ==
    [r EXCEPT !.waits = @ + 1, !.blocked = blockedAfter]

\* after the loop, whether it ended by break or by exhaustion: the page-load
\* wait and the scroll capture follow; nothing reads the title again
AfterBlockingLoop(r, c) == [r EXCEPT !.pc = "capture", !.container = c]

\* mutant: the category is recorded whatever the call returned
RecordAlways(r, category) == [r EXCEPT !.results = @ \cup {category}]

\* capture_all_rankings / capture_all: "if result: results[category.name] = result"
Record(r, category) ==
    IF r.result # "None" THEN [r EXCEPT !.results = @ \cup {category}] ELSE r

\* the decorator after an attempt raised: sleep and try again, or re-raise after
\* the last attempt; capture_all_rankings catches the first call's exception
\* and retries the category once, and only logs the second call's
AttemptRaised(r) ==
    IF r.attempt < RetryAttempts - 1
    THEN [r EXCEPT !.attempt = @ + 1]
    ELSE IF r.call = 1
         THEN [r EXCEPT !.pc = "error_retry"]
         ELSE Advance(r)

\* mutant: main reports success whatever happened
ExitCodeZero(raised) == 0

\* main's return value: 1 from the except branch around crawler.run(), else 0
ExitCode(raised) == IF raised THEN 1 ELSE 0

\* BaseCrawler.cleanup then the removal of the profile directory
Cleanup(r, rmtreeFails) ==
    LET quit == [r EXCEPT !.live = @ \ {r.driver}, !.cleaned = TRUE]
    IN  IF quit.temp_profile_dir # 0 /\ ~rmtreeFails
        THEN [quit EXCEPT !.dirs = @ \ {quit.temp_profile_dir}]
        ELSE quit

(***************************************************************************)
(* The retry decorators.  The state of a wrapped call is a record:         *)
(*   variant        "base": BaseCrawler.retry, "selenium": SeleniumBot.retry *)
(*   max_attempts, delay   the decorator's arguments                       *)
(*   attempt        the loop variable (attempt / attempts)                 *)
(*   outcomes       what each invocation of the wrapped function did:      *)
(*                  "raise", or the value it returned ("None", "path")     *)
(*   events         the invocations and the sleeps, in order               *)
(*   slept          total time slept                                       *)
(*   last_exception the invocation whose exception is remembered (0: None) *)
(*   pc             "loop", "returned" (value) or "raised" (exc: the       *)
(*                  invocation whose exception left the wrapper, -1: the   *)
(*                  TypeError of raising None)                             *)
(***************************************************************************)
DecVariants == {"base", "selenium"}
Delays == {0, 5, 10}
FuncOutcomes == {"raise", "None", "path"}

DecStart(variant, max_attempts, delay) ==
    [pc |-> "loop", variant |-> variant, max_attempts |-> max_attempts,
     delay |-> delay, attempt |-> 0, outcomes |-> <<>>, events |-> <<>>,
     slept |-> 0, last_exception |-> 0, value |-> "-", exc |-> 0]

DecIdle == [DecStart("base", 0, 0) EXCEPT !.pc = "idle"]

\* mutant: the wrapper sleeps after every failed attempt
SleepsAfterFailureAlways(d) == TRUE

\* whether the except branch sleeps: BaseCrawler.retry only when another
\* attempt follows, SeleniumBot.retry always
SleepsAfterFailure(d) ==
    IF d.variant = "base" THEN d.attempt < d.max_attempts - 1 ELSE TRUE

\* the loop condition: range(max_attempts) / while attempts < max_attempts
RetryGuard(d) == d.attempt < d.max_attempts

\* one iteration of the loop: invoke the function; return its value, or
\* remember the exception, sleep and go round
RetryIter(d, outcome) ==
    LET called == [d EXCEPT !.outcomes = Append(@, outcome),
                            !.events = Append(@, "call")]
    IN  IF outcome # "raise"
        THEN [called EXCEPT !.pc = "returned", !.value = outcome]
        ELSE LET caught == [called EXCEPT
                              !.last_exception =
                                  IF d.variant = "base" THEN Len(called.outcomes) ELSE @,
                              !.attempt = @ + 1]
             IN  IF SleepsAfterFailure(d)
                 THEN [caught EXCEPT !.events = Append(@, "sleep"),
                                     !.slept = @ + d.delay]
                 ELSE caught

\* after the loop: BaseCrawler.retry raises last_exception (None when the loop
\* never ran: a TypeError); SeleniumBot.retry invokes the function once more,
\* unprotected
RetryExhausted(d, outcome) ==
    IF d.variant = "base"
    THEN [d EXCEPT !.pc = "raised",
                   !.exc = IF d.last_exception = 0 THEN -1 ELSE d.last_exception]
    ELSE LET called == [d EXCEPT !.outcomes = Append(@, outcome),
                                 !.events = Append(@, "call")]
         IN  IF outcome # "raise"
             THEN [called EXCEPT !.pc = "returned", !.value = outcome]
             ELSE [called EXCEPT !.pc = "raised", !.exc = Len(called.outcomes)]

----------------------------------------------------------------------------
(* merge_screenshots applied to bounded inputs (SpecMerge).                *)

\* frame sequences as the capture loops name them: ids 1..n in capture order
RECURSIVE FrameSeqs(_)
FrameSeqs(n) ==
    IF n = 0 THEN {<<>>}
    ELSE LET shorter == FrameSeqs(n - 1)
         IN  shorter \cup
             {Append(s, [id |-> n, h |-> h, w |-> w]) :
                  s \in {x \in shorter : Len(x) = n - 1},
                  h \in FrameHeights, w \in FrameWidths}

MergeArguments ==
    [variant : {"manager"}, overlap_pixels : Overlaps]
    \cup [variant : {"v2", "legacy"}, overlap_pixels : {0}]

MergeInit ==
    /\ \E a \in MergeArguments, s \in FrameSeqs(MaxFrames),
          saveFails \in BOOLEAN, bad \in 0..1, stick \in BOOLEAN :
           mrg = MrgStart(a.variant, s, a.overlap_pixels,
                          IF bad = 1 /\ s # <<>> THEN {1} ELSE {},
                          saveFails,
                          IF stick /\ s # <<>> THEN {1} ELSE {})
    /\ cap = CapIdle
    /\ run = RunIdle
    /\ dec = DecIdle

Merge ==
    /\ mrg.pc = "call"
    /\ mrg' = MergeScreenshots(mrg)
    /\ UNCHANGED <<cap, run, dec>>

MergeNext == Merge

SpecMerge == MergeInit /\ [][MergeNext]_vars

----------------------------------------------------------------------------
(* Step-level actions of the loops (SpecScroll).                           *)

ScrollInit ==
    /\ \E v \in Variants, c \in Containers, m \in 0..MaxScrolls :
           cap = CapStart(v, c, m)
    /\ mrg = MrgIdle
    /\ run = RunIdle
    /\ dec = DecIdle

EnterLoop ==
    /\ cap.pc = "start"
    /\ cap' = CapEnter(cap)
    /\ UNCHANGED <<mrg, run, dec>>

Iterate ==
    /\ cap.pc = "loop"
    /\ LoopGuard(cap)
    /\ \E after \in ScrollResults(cap.container, cap.scrollTop) :
           cap' = LoopIter(cap, after)
    /\ UNCHANGED <<mrg, run, dec>>

\* save_screenshot raises: the handler around the loop returns what was appended
\* so far (the legacy loop has already issued this iteration's scroll command,
\* and may also fail on its initial screenshot)
ScreenshotRaises ==
    /\ \/ /\ cap.pc = "loop"
          /\ LoopGuard(cap)
          /\ cap.variant # "legacy"
          /\ cap' = ScreenshotRaised(cap)
       \/ /\ cap.pc = "loop"
          /\ LoopGuard(cap)
          /\ cap.variant = "legacy"
          /\ \E after \in ScrollResults(cap.container, cap.scrollTop) :
                 cap' = [cap EXCEPT !.pc = "done", !.raised = TRUE,
                                    !.scrollTop = after,
                                    !.scrollCmds = @ + 1,
                                    !.scroll_count = @ + 1]
       \/ /\ cap.pc = "start"
          /\ cap.variant = "legacy"
          /\ cap.container.exists
          /\ cap' = [cap EXCEPT !.pc = "done", !.raised = TRUE]
    /\ UNCHANGED <<mrg, run, dec>>

\* the scroll script raises: in the manager and v2 loops the frame of this
\* iteration is already appended
ScrollRaises ==
    /\ cap.pc = "loop"
    /\ LoopGuard(cap)
    /\ cap' = IF cap.variant = "legacy"
              THEN [cap EXCEPT !.pc = "done", !.raised = TRUE,
                               !.scrollCmds = @ + 1]
              ELSE ScrollRaised(cap)
    /\ UNCHANGED <<mrg, run, dec>>

LoopExit ==
    /\ cap.pc = "loop"
    /\ ~LoopGuard(cap)
    /\ cap' = [cap EXCEPT !.pc = "done"]
    /\ UNCHANGED <<mrg, run, dec>>

ScrollNext ==
    \/ EnterLoop
    \/ Iterate
    \/ ScreenshotRaises
    \/ ScrollRaises
    \/ LoopExit

SpecScroll == ScrollInit /\ [][ScrollNext]_vars

----------------------------------------------------------------------------
(* The retry decorators, one loop iteration per step (SpecRetry).          *)

RetryInit ==
    /\ \E v \in DecVariants, n \in 0..MaxAttempts, d \in Delays :
           dec = DecStart(v, n, d)
    /\ cap = CapIdle
    /\ mrg = MrgIdle
    /\ run = RunIdle

Attempt ==
    /\ dec.pc = "loop"
    /\ RetryGuard(dec)
    /\ \E outcome \in FuncOutcomes : dec' = RetryIter(dec, outcome)
    /\ UNCHANGED <<cap, mrg, run>>

Exhausted ==
    /\ dec.pc = "loop"
    /\ ~RetryGuard(dec)
    /\ \E outcome \in FuncOutcomes : dec' = RetryExhausted(dec, outcome)
    /\ UNCHANGED <<cap, mrg, run>>

RetryNext == Attempt \/ Exhausted

SpecRetry == RetryInit /\ [][RetryNext]_vars

----------------------------------------------------------------------------
(* The crawl (Spec).                                                       *)

CrawlInit ==
    /\ \/ \E e \in {"main", "direct"}, ts \in TargetChoices : run = RunStart(e, ts)
       \/ \E ts \in TargetChoices : run = V2Start(ts)
       \/ run = LegacyStart
    /\ cap = CapIdle
    /\ mrg = MrgIdle
    /\ dec = DecIdle

Category == run.targets[run.i]

\* capture_all_rankings is entered: the loop starts, or has nothing to do
StartCrawl ==
    /\ run.pc = "begin"
    /\ run' = IF run.targets = <<>> THEN [run EXCEPT !.pc = "summary"]
              ELSE [run EXCEPT !.pc = "category"]
    /\ UNCHANGED <<cap, mrg, dec>>

\* run() is given a period that names no RankingPeriod: the lookup raises
\* before capture_all_rankings is called
RunRejectsPeriod ==
    /\ run.pc = "begin"
    /\ run.entry = "main"
    /\ run' = Abort(run)
    /\ UNCHANGED <<cap, mrg, dec>>

\* top of the loop body: the restart between categories, outside any try
CategoryStart ==
    /\ run.pc = "category"
    /\ run.crawler = "refactored"
    /\ \/ /\ run.i = 1
          /\ run' = NewCall(run, 1)
       \/ /\ run.i > 1
          /\ \E outcome \in RestartOutcomes, rmtreeFails \in BOOLEAN :
                 LET r == RestartBrowser(run, outcome, rmtreeFails)
                 IN  run' = IF RestartRaises(outcome) THEN Abort(r) ELSE NewCall(r, 1)
    /\ UNCHANGED <<cap, mrg, dec>>

\* one attempt of capture_category_ranking up to the scroll capture: driver.get,
\* the blocking-page loop (taken whole here, round by round in SpecNavigate),
\* the page-load wait, get_page_info.  A driver that was quit can only raise.
Navigate ==
    /\ run.pc = "attempt"
    /\ \/ /\ run.driver \in run.live
          /\ \E c \in PageContainers : run' = AfterBlockingLoop(run, c)
       \/ run' = AttemptRaised(run)
    /\ UNCHANGED <<cap, mrg, dec>>

\* the first scroll capture and the tests on its length
FirstCapture ==
    /\ run.pc = "capture"
    /\ \E fault \in run.faults :
           LET c == CapturedWith("first",
                        FaultyCapture(run.container, CaptureMaxScrolls, fault),
                        fault)
           IN  run' = [run EXCEPT !.first = c,
                                  !.captures = @ + 1,
                                  !.catCaptures = @ + 1,
                                  !.pc = AfterFirstCapture(c.n)]
    /\ UNCHANGED <<cap, mrg, dec>>

\* the low-count retry block: restart, navigate again, capture again; any
\* exception in it is logged and the first capture is kept
LowCountRetry ==
    /\ run.pc = "lowcount"
    /\ \E outcome \in RestartOutcomes, rmtreeFails \in BOOLEAN :
           LET r == [RestartBrowser(run, outcome, rmtreeFails)
                        EXCEPT !.lowRestarts = @ + 1, !.pc = "merge"]
           IN  \/ /\ RestartRaises(outcome)
                  /\ run' = [r EXCEPT !.retryRaised = TRUE]
               \/ /\ ~RestartRaises(outcome)
                  /\ run' = [r EXCEPT !.retryRaised = TRUE]
               \/ /\ ~RestartRaises(outcome)
                  /\ \E c \in PageContainers, fault \in run.faults :
                         run' = [r EXCEPT
                                   !.container = c,
                                   !.captures = @ + 1,
                                   !.catCaptures = @ + 1,
                                   !.retry = CapturedWith("retry",
                                       FaultyCapture(c, CaptureMaxScrolls, fault),
                                       fault)]
    /\ UNCHANGED <<cap, mrg, dec>>

\* merge_screenshots on the selected sequence, and the return of its value
MergeStep ==
    /\ run.pc = "merge"
    /\ \E fails \in MergeFailures :
           LET chosen == SelectScreenshots(run.first, run.retry)
               shots == FramesOf(Category, chosen)
               m == MergeScreenshots(
                        MrgStart("manager", shots, MergeOverlap,
                                 IF fails = "open" THEN {shots[1].id} ELSE {},
                                 fails = "save", {}))
           IN  /\ run' = [run EXCEPT !.merged = chosen,
                                     !.merges = @ + 1,
                                     !.writes[Category] =
                                         IF m.written THEN @ + 1 ELSE @,
                                     !.result = m.merged_path,
                                     !.produced = IF m.merged_path # "None"
                                                  THEN @ \cup {Category} ELSE @,
                                     !.pc = "returned"]
               /\ mrg' = m
    /\ UNCHANGED <<cap, dec>>

\* OliveYoungCrawlerV2.capture_category, first statement: a new driver for the
\* category, created outside the try
V2CreateDriver ==
    /\ run.pc = "category"
    /\ run.crawler = "v2"
    /\ \/ run' = Abort(run)
       \/ run' = [NewCall(run, 1) EXCEPT !.pc = "v2_page",
                                         !.created = @ + 1,
                                         !.driver = run.created + 1,
                                         !.live = @ \cup {run.created + 1}]
    /\ UNCHANGED <<cap, mrg, dec>>

\* the try block of capture_category and its finally: navigation (an exception is
\* logged, None), the blocked-title test (None at once), the scroll capture, the
\* merge; the driver is quit in every case
V2CaptureCategory ==
    /\ run.pc = "v2_page"
    /\ LET quit == [run EXCEPT !.live = @ \ {run.driver}, !.pc = "returned"]
       IN  \/ /\ run' = quit
              /\ UNCHANGED mrg
           \/ /\ run' = [quit EXCEPT !.blocked = TRUE]
              /\ UNCHANGED mrg
           \/ \E c \in PageContainers, fails \in MergeFailures :
                  LET first == Captured("first",
                                   V2CaptureScrollingScreenshots(c, CaptureMaxScrolls))
                      shots == FramesOf(Category, first)
                      m == MergeScreenshots(
                               MrgStart("v2", shots, 0,
                                        IF fails = "open" THEN {shots[1].id} ELSE {},
                                        fails = "save", {}))
                      captured == [quit EXCEPT !.container = c, !.first = first,
                                               !.captures = @ + 1]
                  IN  IF first.n = 0
                      THEN run' = captured /\ UNCHANGED mrg
                      ELSE /\ run' = [captured EXCEPT
                                        !.merged = first,
                                        !.merges = @ + 1,
                                        !.result = m.merged_path,
                                        !.produced = IF m.merged_path # "None"
                                                     THEN @ \cup {Category} ELSE @]
                           /\ mrg' = m
    /\ UNCHANGED <<cap, dec>>

\* the rest of the legacy OliveYoungCrawler.__init__: a second driver is created
\* by _setup_driver and stored in self.driver; the one SeleniumBot.__init__
\* created is not quit.  webdriver.Chrome may raise: no crawler is built.
LegacyConstruct ==
    /\ run.pc = "constructing"
    /\ \/ run' = [run EXCEPT !.pc = "ended", !.raised = TRUE]
       \/ run' = [run EXCEPT !.pc = "legacy_page",
                             !.created = @ + 1,
                             !.driver = run.created + 1,
                             !.live = @ \cup {run.created + 1}]
    /\ UNCHANGED <<cap, mrg, dec>>

\* one iteration of capture_pages: _capture_single_page on the same driver; an
\* exception of driver.get leaves the loop for the handler of capture_pages
LegacyCaptureSinglePage ==
    /\ run.pc = "legacy_page"
    /\ LET next == IF run.i < Len(run.targets)
                   THEN [NoCall(run) EXCEPT !.i = @ + 1]
                   ELSE [NoCall(run) EXCEPT !.pc = "legacy_close"]
       IN  \/ /\ run' = [NoCall(run) EXCEPT !.pc = "legacy_close", !.raised = TRUE]
              /\ UNCHANGED mrg
           \/ \E c \in PageContainers, fails \in MergeFailures :
                  LET first == Captured("first", ScrollAndCapture(c, CaptureMaxScrolls))
                      shots == FramesOf(Category, first)
                      m == MergeScreenshots(
                               MrgStart("legacy", shots, 0,
                                        IF fails = "open" THEN {shots[1].id} ELSE {},
                                        fails = "save", {}))
                  IN  /\ run' = next
                      /\ mrg' = IF first.n = 0 THEN MrgIdle ELSE m
    /\ UNCHANGED <<cap, dec>>

\* the finally of capture_pages: close() quits self.driver
LegacyClose ==
    /\ run.pc = "legacy_close"
    /\ run' = [run EXCEPT !.live = @ \ {run.driver}, !.pc = "ended"]
    /\ UNCHANGED <<cap, mrg, dec>>

\* back in capture_all_rankings (capture_all) with the call's value
RecordResult ==
    /\ run.pc = "returned"
    /\ run' = Advance(Record(run, Category))
    /\ mrg' = MrgIdle
    /\ UNCHANGED <<cap, dec>>

\* the except branch of capture_all_rankings: restart and call once more
ErrorRetry ==
    /\ run.pc = "error_retry"
    /\ \E outcome \in RestartOutcomes, rmtreeFails \in BOOLEAN :
           LET r == RestartBrowser(run, outcome, rmtreeFails)
           IN  run' = IF RestartRaises(outcome) THEN Advance(r) ELSE NewCall(r, 2)
    /\ UNCHANGED <<cap, mrg, dec>>

WriteSummary ==
    /\ run.pc = "summary"
    /\ run' = [run EXCEPT !.summary = run.results, !.summaryWritten = TRUE,
                          !.pc = "finished"]
    /\ UNCHANGED <<cap, mrg, dec>>

\* run(): the finally clause; the results or the exception then go to main
RunCleanup ==
    /\ run.pc \in {"finished", "aborted"}
    /\ run.entry = "main"
    /\ \E rmtreeFails \in BOOLEAN :
           run' = [Cleanup(run, rmtreeFails) EXCEPT !.pc = "main"]
    /\ UNCHANGED <<cap, mrg, dec>>

\* main after crawler.run(): print the results and return 0, or print the error
\* and return 1
MainReturn ==
    /\ run.pc = "main"
    /\ run' = [run EXCEPT !.pc = "ended", !.exit_code = ExitCode(run.raised)]
    /\ UNCHANGED <<cap, mrg, dec>>

\* a script that called capture_all_rankings itself: the call returns or raises
\* into the script, which ends
DirectReturn ==
    /\ run.pc \in {"finished", "aborted"}
    /\ run.entry = "direct"
    /\ run' = [run EXCEPT !.pc = "ended"]
    /\ UNCHANGED <<cap, mrg, dec>>

Next ==
    \/ StartCrawl
    \/ RunRejectsPeriod
    \/ CategoryStart
    \/ Navigate
    \/ FirstCapture
    \/ LowCountRetry
    \/ MergeStep
    \/ RecordResult
    \/ ErrorRetry
    \/ WriteSummary
    \/ RunCleanup
    \/ MainReturn
    \/ DirectReturn
    \/ V2CreateDriver
    \/ V2CaptureCategory
    \/ LegacyConstruct
    \/ LegacyCaptureSinglePage
    \/ LegacyClose

Spec == CrawlInit /\ [][Next]_vars

----------------------------------------------------------------------------
(* A script that builds one crawler and calls capture_all_rankings on it   *)
(* more than once, as the test scripts do (SpecSession).  The session id,  *)
(* and with it every output path, is fixed when the crawler is built.      *)

SessionInit ==
    /\ run = RunStart("direct", <<"all">>)
    /\ cap = CapIdle
    /\ mrg = MrgIdle
    /\ dec = DecIdle

\* the script calls capture_all_rankings again, for the same category, after
\* the previous call returned: results is a new dict, the crawler is not
CallAgain ==
    /\ run.pc = "finished"
    /\ run.entry = "direct"
    /\ run.calls < MaxCalls
    /\ run' = [run EXCEPT !.pc = "begin", !.i = 1, !.results = {},
                          !.calls = @ + 1]
    /\ UNCHANGED <<cap, mrg, dec>>

SessionNext ==
    \/ StartCrawl
    \/ CategoryStart
    \/ Navigate
    \/ FirstCapture
    \/ LowCountRetry
    \/ MergeStep
    \/ RecordResult
    \/ ErrorRetry
    \/ WriteSummary
    \/ CallAgain
    \/ DirectReturn

SpecSession == SessionInit /\ [][SessionNext]_vars

----------------------------------------------------------------------------
(* The processing of one category by capture_all_rankings, from the first  *)
(* call of capture_category_ranking on, with a browser whose screenshots   *)
(* and scroll scripts may fail inside the capture loop (SpecCategory).     *)

CategoryInit ==
    /\ \E e \in {"main", "direct"} :
           run = NewCall([RunStart(e, <<"all">>) EXCEPT !.faults = Faults], 1)
    /\ cap = CapIdle
    /\ mrg = MrgIdle
    /\ dec = DecIdle

CategoryNext ==
    \/ Navigate
    \/ FirstCapture
    \/ LowCountRetry
    \/ MergeStep
    \/ RecordResult
    \/ ErrorRetry
    \/ WriteSummary
    \/ RunCleanup
    \/ MainReturn
    \/ DirectReturn

SpecCategory == CategoryInit /\ [][CategoryNext]_vars

\* the loop is live: it keeps taking steps until it returns
SpecScrollFair == SpecScroll /\ WF_vars(ScrollNext)

----------------------------------------------------------------------------
(* One call of capture_category_ranking from the moment driver.get has     *)
(* returned, the blocking-page loop taken round by round (SpecNavigate).   *)

NavigateInit ==
    /\ \E e \in {"main", "direct"}, blocked \in BOOLEAN :
           run = [NewCall(RunStart(e, <<"all">>), 1) EXCEPT
                     !.pc = "title_check", !.blocked = blocked]
    /\ cap = CapIdle
    /\ mrg = MrgIdle
    /\ dec = DecIdle

BlockedRound ==
    /\ run.pc = "title_check"
    /\ BlockingLoopGuard(run)
    /\ \E blockedAfter \in BOOLEAN : run' = WaitAndRefresh(run, blockedAfter)
    /\ UNCHANGED <<cap, mrg, dec>>

BlockingLoopEnd ==
    /\ run.pc = "title_check"
    /\ ~BlockingLoopGuard(run)
    /\ \E c \in PageContainers : run' = AfterBlockingLoop(run, c)
    /\ UNCHANGED <<cap, mrg, dec>>

NavigateNext ==
    \/ BlockedRound
    \/ BlockingLoopEnd
    \/ FirstCapture
    \/ LowCountRetry
    \/ MergeStep
    \/ RecordResult
    \/ WriteSummary
    \/ RunCleanup
    \/ MainReturn
    \/ DirectReturn

SpecNavigate == NavigateInit /\ [][NavigateNext]_vars

\* the merge called on its own and the merge called by the crawl
MergeOrCrawlInit == MergeInit \/ CrawlInit

MergeOrCrawlNext == MergeNext \/ Next

SpecMergeAndCrawl == MergeOrCrawlInit /\ [][MergeOrCrawlNext]_vars

----------------------------------------------------------------------------
(* Claims about the scroll-capture loops.                                  *)

NewLoop == cap.variant \in {"manager", "v2"}
CapDone == cap.pc = "done"
NonScrollable ==
    /\ cap.container.exists
    /\ cap.container.mode = "static"
    /\ cap.container.scrollHeight <= cap.container.clientHeight
Scenario2000 ==
    /\ cap.container.exists
    /\ cap.container.mode = "static"
    /\ cap.container.scrollHeight = 2000
    /\ cap.container.clientHeight = 800
    /\ cap.max_scrolls >= 3

\* C1: every scroll-capture loop returns, whatever offsets the container
\* reports; the manager and v2 loops issue at most max_scrolls scroll commands
\* and return at most max_scrolls frames, the legacy loop saves at most
\* max_scrolls + 1 screenshots.
C1_BoundedTermination ==
    /\ [](/\ cap.scrollCmds <= cap.max_scrolls
          /\ NewLoop => Len(cap.screenshots) <= cap.max_scrolls
          /\ Len(cap.screenshots) <= cap.max_scrolls + 1)
    /\ <>CapDone

\* a container that never settles ran the loop into its bound
C1_Witness ==
    /\ CapDone
    /\ ~cap.raised
    /\ cap.container.mode = "free"
    /\ cap.max_scrolls >= 3
    /\ cap.scrollCmds = cap.max_scrolls
    /\ cap.scrollTop # cap.screenshots[Len(cap.screenshots)]

\* C8 as stated: a non-scrollable container yields at most 1 frame.
C8_Original ==
    (CapDone /\ NewLoop /\ NonScrollable) => Len(Returned(cap)) <= 1

\* C8 amended: for a non-scrollable container the manager and v2 loops yield at
\* most 2 frames, and exactly min(2, max_scrolls) when nothing raises: the first
\* scroll result is compared with the initial -1, so no movement is detected
\* only after the second scroll attempt.
C8_NonScrollableTwoFrames ==
    (NewLoop /\ NonScrollable) =>
        /\ Len(cap.screenshots) <= 2
        /\ cap.scrollCmds <= 2
        /\ (CapDone /\ ~cap.raised) =>
               /\ Len(Returned(cap)) = Min(2, cap.max_scrolls)
               /\ cap.scrollCmds = Min(2, cap.max_scrolls)

C8_Witness ==
    /\ CapDone /\ NewLoop /\ NonScrollable /\ ~cap.raised
    /\ cap.max_scrolls >= 3
    /\ Returned(cap) = <<0, 0>>

\* C9 as stated: scrollHeight 2000, clientHeight 800: exactly 2 scroll commands
\* and the 3 frames at 0, 800 and 1200.
C9_Original ==
    (CapDone /\ ~cap.raised /\ NewLoop /\ Scenario2000) =>
        /\ cap.scrollCmds = 2
        /\ Returned(cap) = <<0, 800, 1200>>

\* C9 amended: for scrollHeight 2000 and clientHeight 800 (max_scrolls >= 3) the
\* loop stops once offset 1200 is repeated, having issued exactly 3 scroll
\* commands, the third leaving the offset at 1200; the manager and v2 loops
\* captured exactly the 3 frames at 0, 800 and 1200, the legacy loop a fourth
\* frame at 1200.
C9_ThreeScrolls ==
    (CapDone /\ ~cap.raised /\ Scenario2000) =>
        /\ cap.scrollCmds = 3
        /\ cap.scrollTop = 1200
        /\ cap.last_scroll_top = 1200
        /\ NewLoop => Returned(cap) = <<0, 800, 1200>>
        /\ ~NewLoop => Returned(cap) = <<0, 800, 1200, 1200>>

C9_Witness ==
    /\ CapDone /\ ~cap.raised /\ Scenario2000
    /\ cap.variant = "manager"
    /\ cap.max_scrolls > 3
    /\ cap.scrollCmds = 3

----------------------------------------------------------------------------
(* Claims about merge_screenshots.                                         *)

MrgDone == mrg.pc = "done"
Composited == MrgDone /\ mrg.canvas # NoCanvas
InputLen == Len(mrg.screenshots)
RetainedLen == IF InputLen > 2 THEN InputLen - 2 ELSE InputLen
NewMerge == mrg.variant \in {"manager", "v2"}
EffectiveOverlap == IF mrg.variant = "manager" THEN mrg.overlap_pixels ELSE 0

\* C2: the merge trims by input length only: with 1 or 2 frames none is
\* dropped, with more than 2 exactly the last 2 are, and the frames kept are
\* composited in their original order.
C2_TrimByLength ==
    Composited =>
        /\ Len(mrg.pasted) = RetainedLen
        /\ \A i \in 1..RetainedLen : mrg.pasted[i].id = mrg.screenshots[i].id
        /\ \A i \in 2..RetainedLen : mrg.pasted[i].y >= mrg.pasted[i - 1].y

C2_Witness ==
    /\ Composited
    /\ InputLen = 10
    /\ [i \in 1..Len(mrg.pasted) |-> mrg.pasted[i].id] = <<1, 2, 3, 4, 5, 6, 7, 8>>

\* C3: the canvas height is the sum of the heights of the frames kept after
\* trimming minus overlap_pixels x (kept - 1), the exact sum with overlap 0;
\* 10 frames of 100 x 375 with overlap 0 give a 375 x 800 canvas.
C3_CanvasHeight ==
    Composited =>
        /\ mrg.canvas.height =
               SumHeights(SubSeq(mrg.screenshots, 1, RetainedLen))
                 - EffectiveOverlap * (RetainedLen - 1)
        /\ (/\ InputLen = 10
            /\ EffectiveOverlap = 0
            /\ \A i \in 1..InputLen : mrg.screenshots[i].h = 100 /\ mrg.screenshots[i].w = 375)
               => mrg.canvas = [width |-> 375, height |-> 800]

C3_Witness ==
    /\ Composited
    /\ mrg.variant = "manager"
    /\ InputLen = 10
    /\ mrg.overlap_pixels = 0
    /\ \A i \in 1..InputLen : mrg.screenshots[i].h = 100
    /\ mrg.canvas = [width |-> 375, height |-> 800]

\* C4: after merge_screenshots returned a path, every per-step file named in
\* the sequence it was given is gone from the temp directory.
C4_AllInputFilesRemoved ==
    (MrgDone /\ NewMerge /\ mrg.merged_path # "None" /\ mrg.stuck = {}) =>
        \A i \in 1..InputLen : mrg.screenshots[i].id \notin mrg.tempFiles

----------------------------------------------------------------------------
(* Claims about the crawl.                                                 *)

Refactored == run.crawler = "refactored"
CallOver == Refactored /\ run.pc = "returned"
PastCaptures == Refactored /\ run.pc \in {"merge", "returned"}
ContainerMissing == run.first.ran /\ ~run.retry.ran /\ ~run.container.exists

\* C5 as stated: a first capture of 1..19 frames is followed by exactly one
\* restart and exactly one more capture; one of 20 or more by neither.
C5_Original ==
    (PastCaptures /\ run.first.n > 0) =>
        IF run.first.n < 20
        THEN run.lowRestarts = 1 /\ run.captures = 2
        ELSE run.lowRestarts = 0 /\ run.captures = 1

\* C5 amended: after a non-empty first capture of fewer than 20 frames
\* restart_browser is called exactly once and the scroll capture runs at most
\* once more before the merge: exactly once more when the restart and the
\* re-navigation raise nothing, not at all when one of them raises (the first
\* capture is then merged).  After a first capture of 20 or more frames there
\* is no restart and no second capture.
C5_RestartOnceCaptureAtMostOnceMore ==
    (PastCaptures /\ run.first.n > 0) =>
        IF run.first.n < 20
        THEN /\ run.lowRestarts = 1
             /\ run.captures = (IF run.retryRaised THEN 1 ELSE 2)
             /\ run.retry.ran = ~run.retryRaised
        ELSE /\ run.lowRestarts = 0
             /\ run.captures = 1
             /\ ~run.retry.ran
             /\ ~run.retryRaised

C5_Witness ==
    /\ CallOver
    /\ run.first.n = 5
    /\ run.retry.ran
    /\ run.lowRestarts = 1
    /\ run.captures = 2
    /\ run.merges = 1

\* C6: a failure while processing one category, a failed browser restart
\* included, never aborts the run: the run reaches the writing of the summary.
C6_RunNeverAborts ==
    /\ run.pc # "aborted"
    /\ run.pc = "ended" => run.summaryWritten

\* C7: when a crawl started through run() or through capture_all_rankings()
\* has ended, by return or by exception, the current driver has been quit and
\* no temporary profile directory remains (stated for the crawls of both
\* categories).
C7_CleanupOnEveryExit ==
    (Refactored /\ run.pc = "ended" /\ Len(run.targets) = 2) =>
        (run.driver \notin run.live /\ run.dirs = {})

\* C10: when the container element does not exist the capture returns no frame,
\* having taken no screenshot and issued no scroll command;
\* capture_category_ranking returns None with no restart, no second capture and
\* no merge; the category stays out of the results and the run goes on to the
\* next category (or to the summary after the last one).
C10_MissingContainer ==
    /\ []((CallOver /\ ContainerMissing) =>
            /\ run.first.n = 0
            /\ run.first.scrollCmds = 0
            /\ run.captures = 1
            /\ run.lowRestarts = 0
            /\ run.merges = 0
            /\ run.result = "None")
    /\ [][(CallOver /\ ContainerMissing) =>
            /\ run.targets[run.i] \notin run'.results
            /\ run'.results = run.results
            /\ IF run.i < Len(run.targets)
               THEN run'.pc = "category" /\ run'.i = run.i + 1
               ELSE run'.pc = "summary"]_vars

C10_Witness ==
    /\ CallOver
    /\ ContainerMissing
    /\ run.i < Len(run.targets)
    /\ run.result = "None"

----------------------------------------------------------------------------
(* Claims about failures of the merge.                                     *)

InputFiles == {mrg.screenshots[i].id : i \in 1..Len(mrg.screenshots)}

\* Image.open fails on a frame the merge loads
LoadFails ==
    \E i \in 1..Len(Trim(mrg.screenshots)) :
        Trim(mrg.screenshots)[i].id \in mrg.unreadable

MergeBroke == mrg.screenshots # <<>> /\ (LoadFails \/ mrg.saveFails)

\* C11: when loading a frame or writing the canvas fails, the merge returns no
\* path (it returns, it does not raise), every per-step file is still there,
\* and the calling crawl records nothing for the category; an empty argument
\* returns no path either, and nothing is composed or written.
C11_FailedMergeKeepsFiles ==
    /\ [](/\ (MrgDone /\ MergeBroke) =>
               (mrg.merged_path = "None" /\ ~mrg.written /\ mrg.tempFiles = InputFiles)
          /\ (MrgDone /\ mrg.screenshots = <<>>) =>
               (/\ mrg.merged_path = "None" /\ ~mrg.written
                /\ mrg.canvas = NoCanvas /\ mrg.pasted = <<>>)
          /\ (run.pc = "returned" /\ MrgDone /\ MergeBroke) => run.result = "None")
    /\ [][(run.pc = "returned" /\ MrgDone /\ MergeBroke) =>
              run'.results = run.results]_vars

\* a merge of 20 frames called by the crawl failed on the write
C11_Witness ==
    /\ run.pc = "returned" /\ MrgDone /\ mrg.saveFails /\ ~LoadFails
    /\ InputLen = 20
    /\ mrg.tempFiles = InputFiles
    /\ run.result = "None"

----------------------------------------------------------------------------
(* Claims about the retry decorators.                                      *)

Invocations == Len(dec.outcomes)
Sleeps == Cardinality({i \in 1..Len(dec.events) : dec.events[i] = "sleep"})
DecOver == dec.pc \in {"returned", "raised"}
BaseRetry == dec.variant = "base" /\ dec.max_attempts >= 1

\* C12: under BaseCrawler.retry(max_attempts = n, delay = d), n >= 1, the
\* function is invoked at most n times; the first invocation that returns ends
\* the call with its value, None included; when all n invocations raise, the
\* exception of the last one leaves the wrapper; the wrapper sleeps d between
\* consecutive invocations only: invocations - 1 times, never after the last.
C12_BaseRetry ==
    BaseRetry =>
        /\ Invocations <= dec.max_attempts
        /\ \A i \in 1..(Invocations - 1) : dec.outcomes[i] = "raise"
        /\ dec.pc = "returned" =>
              (/\ dec.outcomes[Invocations] # "raise"
               /\ dec.value = dec.outcomes[Invocations])
        /\ dec.pc = "raised" =>
              (/\ Invocations = dec.max_attempts
               /\ dec.outcomes[Invocations] = "raise"
               /\ dec.exc = Invocations)
        /\ DecOver =>
              (/\ Sleeps = Invocations - 1
               /\ dec.slept = dec.delay * (Invocations - 1)
               /\ dec.events[Len(dec.events)] = "call")
        /\ \A i \in 1..Len(dec.events) :
              dec.events[i] = (IF i % 2 = 1 THEN "call" ELSE "sleep")

\* three attempts raised: two sleeps of 5, the third exception propagates
C12_Witness ==
    /\ BaseRetry /\ dec.max_attempts = 3 /\ dec.delay = 5
    /\ dec.pc = "raised" /\ dec.exc = 3
    /\ Invocations = 3 /\ dec.slept = 10

----------------------------------------------------------------------------
(* Claims about the blocked page.                                          *)

AfterNavigation == run.pc \in {"capture", "lowcount", "merge", "returned"}
StillBlocked == run.blocked /\ run.waits = MaxWaitAttempts

\* C13: when the title is still the interstitial after the last
\* wait-and-refresh round, the capture of the category fails: no screenshot is
\* taken and no scroll is made on that page, nothing is merged and no output
\* path is returned.
C13_BlockedCaptureFails ==
    /\ run.waits <= MaxWaitAttempts
    /\ (Refactored /\ AfterNavigation /\ StillBlocked /\ run.lowRestarts = 0) =>
          /\ run.first.n = 0
          /\ run.first.scrollCmds = 0
          /\ run.merges = 0
          /\ run.result = "None"

----------------------------------------------------------------------------
(* Claims about the results map and the summary.                           *)

Selected == {run.targets[k] : k \in 1..Len(run.targets)}

\* C14: the results map holds a category exactly when a capture of it returned
\* a merged output path (while the returned path is being stored, the category
\* just captured is the only one not yet in the map); its keys are selected
\* categories; the summary is written after the last category only, with
\* exactly that map.
C14_ResultsAreProduced ==
    /\ run.results \subseteq run.produced
    /\ run.produced \subseteq Selected
    /\ run.pc # "returned" => run.results = run.produced
    /\ run.pc = "returned" => run.produced \ run.results \subseteq {Category}
    /\ run.summaryWritten =>
          /\ run.targets = <<>> \/ run.i = Len(run.targets)
          /\ run.summary = run.produced
          /\ run.summary = run.results

\* two categories selected, only the first produced an output
C14_Witness ==
    /\ run.summaryWritten
    /\ run.targets = <<"all", "bodycare">>
    /\ run.produced = {"all"}
    /\ run.summary = {"all"}

----------------------------------------------------------------------------
(* Claims about the offsets of the frames.                                 *)

Static == cap.container.exists /\ cap.container.mode = "static"
Offsets == cap.screenshots

\* C15 as stated: each frame is captured at an offset strictly greater than
\* that of the frame before it.
C15_Original ==
    \A i \in 2..Len(Offsets) : Offsets[i] > Offsets[i - 1]

\* C15: on a static container the frames are in non-decreasing offset order and
\* two consecutive frames share an offset only at the container's largest
\* offset (in the manager and v2 loops: only when that is 0, the
\* non-scrollable case); on any container the loop goes round again only
\* when the scroll gave another offset than the previous scroll (-1 before the
\* first one), and it returns without an exception only when max_scrolls is
\* used up or the scroll gave the offset the previous scroll gave.
C15_OffsetsNonDecreasing ==
    /\ [](Static =>
             \A i \in 2..Len(Offsets) :
                 \/ Offsets[i] > Offsets[i - 1]
                 \/ /\ Offsets[i] = Offsets[i - 1]
                    /\ Offsets[i] = MaxScrollTop(cap.container)
                    /\ NewLoop => MaxScrollTop(cap.container) = 0)
    /\ [][/\ (cap.pc = "loop" /\ cap'.pc = "loop") =>
                cap'.scrollTop # cap.last_scroll_top
          /\ (cap.pc = "loop" /\ cap'.pc = "done" /\ ~cap'.raised) =>
                \/ cap.scroll_count >= cap.max_scrolls
                \/ cap'.scrollTop = cap.last_scroll_top]_vars

\* the bound ended the loop: four frames at four increasing offsets
C15_Witness ==
    /\ CapDone /\ ~cap.raised /\ NewLoop /\ Static
    /\ cap.max_scrolls = 4
    /\ Offsets = <<0, 800, 1600, 2400>>

----------------------------------------------------------------------------
(* Claims about the coverage of the frames.                                *)

\* scrolls of one client height from offset 0 to the largest offset
ScrollsToBottom(c) == (MaxScrollTop(c) + c.clientHeight - 1) \div c.clientHeight

Covered(y) ==
    \E i \in 1..Len(Offsets) :
        Offsets[i] <= y /\ y < Offsets[i] + cap.container.clientHeight

FullyCovered ==
    /\ \A y \in 0..(cap.container.scrollHeight - 1) : Covered(y)
    /\ Offsets # <<>>
    /\ Offsets[Len(Offsets)] = MaxScrollTop(cap.container)

----------------------------------------------------------------------------
(* Claims about the frames the merge leaves out.                           *)

\* the offsets at which the frames given to the merge were captured
MergedOffsets ==
    SubSeq(Returned(CaptureScrollingScreenshots(run.merged.container,
                                                CaptureMaxScrolls)),
           1, run.merged.n)

\* C17: after a capture of a static container and a successful merge, every
\* offset at which a frame left out by the merge was captured is also the
\* offset of a frame the merge kept.
C17_DiscardedFramesRedundant ==
    (Refactored /\ run.pc = "returned" /\ MrgDone /\ mrg.merged_path # "None") =>
        \A i \in (Len(mrg.images) + 1)..Len(MergedOffsets) :
            \E j \in 1..Len(mrg.images) : MergedOffsets[j] = MergedOffsets[i]

----------------------------------------------------------------------------
(* Claims about the capture that is merged.                                *)

Merged == Refactored /\ run.pc = "returned" /\ run.merges = 1
BothLow ==
    /\ run.first.n > 0 /\ run.first.n < MIN_EXPECTED_SCREENSHOTS
    /\ run.retry.ran /\ run.retry.n < MIN_EXPECTED_SCREENSHOTS

\* C18 as stated: when the first capture and the retry capture are both below
\* the threshold, the merged sequence is the one with the more frames.
C18_Original ==
    (Merged /\ BothLow) =>
        /\ run.merged.n = Max(run.first.n, run.retry.n)
        /\ run.merged.n >= run.first.n
        /\ run.merged.n >= run.retry.n

\* C18: when the first capture and the retry capture are both below the
\* threshold, the merged sequence is the retry capture if it has any frame,
\* fewer than the first capture or not, and the first capture otherwise.
C18_RetryPreferred ==
    (Merged /\ BothLow) =>
        run.merged = (IF run.retry.n > 0 THEN run.retry ELSE run.first)

\* five frames first, two on the retry: the two are merged
C18_Witness ==
    /\ Merged /\ BothLow
    /\ run.first.n = 5
    /\ run.retry.n = 2
    /\ run.merged.tag = "retry"
    /\ InputLen = 2

----------------------------------------------------------------------------
(* Claims about the browser drivers.                                       *)

\* C19: at most one driver that was created and not yet quit exists at any
\* time, while a crawler is constructed, while the browser is restarted and
\* from one category to the next.
C19_AtMostOneLiveDriver == Cardinality(run.live) <= 1

----------------------------------------------------------------------------
(* Claims about the session's temp directory.                              *)

MergeSucceeded == MrgDone /\ NewMerge /\ mrg.merged_path # "None"

\* C20 as stated: once a merge has returned an output path, the session's temp
\* directory no longer exists.
C20_Original == MergeSucceeded => ~mrg.temp_dir

\* C20: the session's temp directory exists before and after every merge; a
\* merge that returned a path has unlinked from it the files of the frames it
\* composited (those whose unlink did not fail) and no other file.
C20_TempDirKept ==
    /\ NewMerge => mrg.temp_dir
    /\ MergeSucceeded =>
          mrg.tempFiles =
              InputFiles \ ({mrg.images[i].id : i \in 1..Len(mrg.images)} \ mrg.stuck)

\* five frames merged: the directory is there, with the last two files
C20_Witness ==
    /\ MergeSucceeded
    /\ InputLen = 5
    /\ mrg.temp_dir
    /\ mrg.tempFiles = {4, 5}

----------------------------------------------------------------------------
(* Claims about SeleniumBot.retry.                                         *)

SeleniumRetry == dec.variant = "selenium"

\* C29 as stated: an operation wrapped by SeleniumBot.retry(max_attempts = n,
\* delay = d) is invoked at most n times in total.
C29_AtMostNInvocations == SeleniumRetry => Invocations <= dec.max_attempts

----------------------------------------------------------------------------
(* Claims about the canvas height as a function of the frame count.        *)

EqualFrames ==
    /\ InputLen >= 1
    /\ \A i \in 1..InputLen : mrg.screenshots[i].h = mrg.screenshots[1].h
    /\ EffectiveOverlap < mrg.screenshots[1].h

\* the canvas height the same merge produces for another frame sequence
HeightFor(screenshots) ==
    MergeScreenshots(MrgStart(mrg.variant, screenshots, mrg.overlap_pixels,
                              {}, FALSE, {})).canvas.height

\* C22 as stated: for frames of equal height and an overlap smaller than the
\* frame height, the canvas produced for n + 1 frames is never lower than the
\* canvas produced for the first n of them, for every n >= 1.
C22_HeightNonDecreasing ==
    (Composited /\ NewMerge /\ EqualFrames /\ InputLen >= 2) =>
        mrg.canvas.height >=
            HeightFor(SubSeq(mrg.screenshots, 1, InputLen - 1))

----------------------------------------------------------------------------
(* Claims about the paste cursor.                                          *)

RetainedHeight == mrg.images[1].h

PastedEqual ==
    /\ Composited
    /\ mrg.variant = "manager"
    /\ \A i \in 1..Len(mrg.images) : mrg.images[i].h = RetainedHeight
    /\ mrg.overlap_pixels < RetainedHeight

\* C27: when the retained frames all have height h and 0 <= overlap_pixels < h,
\* the first frame is pasted at 0, each next frame h - overlap_pixels below the
\* previous one, every frame lies inside the canvas, the canvas height is
\* positive and the bottom edge of the last frame is the canvas height.
C27_PasteCursor ==
    PastedEqual =>
        LET n == Len(mrg.pasted)
        IN  /\ n = Len(mrg.images)
            /\ mrg.pasted[1].y = 0
            /\ \A i \in 1..(n - 1) :
                  mrg.pasted[i + 1].y =
                      mrg.pasted[i].y + RetainedHeight - mrg.overlap_pixels
            /\ \A i \in 1..n :
                  /\ mrg.pasted[i].y >= 0
                  /\ mrg.pasted[i].y + mrg.pasted[i].h <= mrg.canvas.height
            /\ mrg.canvas.height > 0
            /\ mrg.pasted[n].y + mrg.pasted[n].h = mrg.canvas.height

\* three retained frames of height 200 with 50 of overlap: cursor 0, 150, 300
C27_Witness ==
    /\ PastedEqual
    /\ Len(mrg.pasted) = 3
    /\ RetainedHeight = 200 /\ mrg.overlap_pixels = 50
    /\ mrg.pasted[3].y = 300
    /\ mrg.canvas.height = 500

----------------------------------------------------------------------------
(* Claims about the number of frames of the manager loop.                  *)

CeilDiv(a, b) == (a + b - 1) \div b

ManagerStaticDone ==
    CapDone /\ ~cap.raised /\ cap.variant = "manager" /\ Static

\* C25: on a static container with scrollHeight S, clientHeight C > 0 and
\* M = max(S - C, 0), capture_scrolling_screenshots, when nothing raises,
\* returns exactly min(max_scrolls, max(2, ceil(M / C) + 1)) frames, after as
\* many scroll commands, frame i (from 0) being taken at offset min(i * C, M).
C25_FrameCount ==
    ManagerStaticDone =>
        LET S == cap.container.scrollHeight
            C == cap.container.clientHeight
            M == IF S - C > 0 THEN S - C ELSE 0
            k == Min(cap.max_scrolls, Max(2, CeilDiv(M, C) + 1))
        IN  /\ Len(Returned(cap)) = k
            /\ cap.scrollCmds = k
            /\ \A i \in 0..(k - 1) : Returned(cap)[i + 1] = Min(i * C, M)

\* 3200 pixels in an 800 pixel viewport with max_scrolls 4: four frames and
\* four scroll commands
C25_Witness ==
    /\ ManagerStaticDone
    /\ cap.container.scrollHeight = 3200
    /\ cap.max_scrolls = 4
    /\ Returned(cap) = <<0, 800, 1600, 2400>>
    /\ cap.scrollCmds = 4

----------------------------------------------------------------------------
(* Claims relating the legacy loop to the manager loop.                    *)

RECURSIVE Replay(_, _, _)
\* the loop of state s run against the scroll results given, from the i-th on
Replay(s, results, i) ==
    IF s.pc = "loop" /\ LoopGuard(s) /\ i <= Len(results)
    THEN Replay(LoopIter(s, results[i]), results, i + 1)
    ELSE s

LegacyDone ==
    CapDone /\ ~cap.raised /\ cap.variant = "legacy" /\ cap.container.exists

\* the offsets the container reported to the legacy loop, scroll by scroll
LegacyScrollResults == Tail(cap.screenshots)

\* the manager loop on the same container with the same max_scrolls, the
\* container answering each scroll as it answered the legacy loop
ManagerTwin ==
    Replay(CapEnter(CapStart("manager", cap.container, cap.max_scrolls)),
           LegacyScrollResults, 1)

\* C26: on the same container behaviour and max_scrolls (container present,
\* nothing raising), the legacy loop and the manager loop issue the same scroll
\* commands and stop at the same step, and the legacy frames are the manager
\* frames followed by one more frame, taken at the offset the last scroll
\* reached.
C26_LegacyIsManagerPlusOne ==
    LegacyDone =>
        /\ cap.scrollCmds = Len(LegacyScrollResults)
        /\ ManagerTwin.scrollCmds = cap.scrollCmds
        /\ ManagerTwin.scroll_count = cap.scroll_count
        /\ (ManagerTwin.pc = "done" \/ ~LoopGuard(ManagerTwin))
        /\ ManagerTwin.scrollTop = cap.scrollTop
        /\ cap.screenshots = Append(ManagerTwin.screenshots, cap.scrollTop)

\* scrollHeight 2000 in an 800 pixel viewport: the legacy loop saved the frames
\* at 0, 800, 1200, 1200, the manager loop saves 0, 800, 1200
C26_Witness ==
    /\ LegacyDone
    /\ cap.container.mode = "static"
    /\ cap.container.scrollHeight = 2000
    /\ cap.max_scrolls = 4
    /\ cap.screenshots = <<0, 800, 1200, 1200>>
    /\ ManagerTwin.screenshots = <<0, 800, 1200>>
    /\ ManagerTwin.scrollCmds = 3

----------------------------------------------------------------------------
(* Claims about the sequence given to the merge.                           *)

\* C30: capture_category_ranking merges at most once per attempt, never an
\* empty sequence, and what it merges is one of its two captures in full: the
\* retry capture when the low-count retry ran and returned at least one frame,
\* otherwise (no retry, a retry without frames, a retry that raised) the first
\* capture.
C30_MergesOneCapture ==
    /\ Refactored => run.merges <= 1
    /\ Merged =>
          /\ run.merged.n > 0
          /\ mrg.screenshots # <<>>
          /\ mrg.screenshots = FramesOf(Category, run.merged)
          /\ run.merged = (IF run.retry.ran /\ run.retry.n > 0
                           THEN run.retry ELSE run.first)
          /\ run.merged \in {run.first, run.retry}

\* the retry ran and returned nothing: the five frames of the first capture
\* are merged
C30_Witness ==
    /\ Merged
    /\ run.lowRestarts = 1
    /\ run.retry.ran /\ run.retry.n = 0
    /\ run.first.n = 5
    /\ run.merged = run.first
    /\ InputLen = 5

----------------------------------------------------------------------------
(* Claims about a capture cut short by an exception.                       *)

Partial(c) == c.ran /\ c.fault # NoFault

\* the frames appended when the fault strikes: save_screenshot raises before
\* the append of its iteration, the scroll script after it
FramesBefore(fault) ==
    IF fault.kind = "screenshot" THEN fault.at ELSE fault.at + 1

\* C28: a screenshot or scroll failure inside the capture loop raises nothing
\* to capture_category_ranking: the capture returns the frames appended before
\* the failure, and the caller goes on as after any capture: it returns None
\* for no frame, takes the low-count retry below 20 frames and merges
\* otherwise, and the partial sequence it selected is merged whole.
C28_PartialCaptureIsUsed ==
    /\ [](/\ \A c \in {run.first, run.retry} :
                Partial(c) => c.n = FramesBefore(c.fault)
          /\ (Merged /\ Partial(run.merged)) =>
                /\ InputLen = FramesBefore(run.merged.fault)
                /\ mrg.screenshots = FramesOf(Category, run.merged))
    /\ [][/\ run.pc = "capture" =>
                /\ run'.attempt = run.attempt /\ run'.call = run.call
                /\ run'.first.ran
                /\ run'.pc = (IF run'.first.n = 0 THEN "returned"
                              ELSE IF run'.first.n < 20 THEN "lowcount"
                              ELSE "merge")
          /\ run.pc = "lowcount" =>
                /\ run'.attempt = run.attempt /\ run'.call = run.call
                /\ run'.pc = "merge"]_vars

\* save_screenshot failed in the 26th iteration: the 25 frames taken so far
\* pass the threshold and are merged without a retry
C28_Witness ==
    /\ Merged
    /\ run.first.fault = [kind |-> "screenshot", at |-> 25]
    /\ run.first.n = 25
    /\ run.lowRestarts = 0
    /\ run.merged = run.first
    /\ InputLen = 25

----------------------------------------------------------------------------
(* Claims about the number of scroll captures per category.                *)

AfterCapture == {"lowcount", "merge", "returned"}

\* C24: for one category the scroll-capture loop runs at most twice, over all
\* decorator attempts and both calls of the orchestrator: every capture of the
\* category belongs to the same attempt, because an attempt that has started a
\* capture goes on to return (None or the merge's value) without raising, so
\* neither the decorator nor the orchestrator calls again.
C24_AtMostTwoCaptures ==
    /\ [](Refactored =>
             /\ run.catCaptures <= 2
             /\ run.catCaptures = run.captures
             /\ run.captures <= 1 + run.lowRestarts
             /\ run.lowRestarts <= 1)
    /\ [][(Refactored /\ run.captures > 0) =>
             /\ run.pc \in AfterCapture
             /\ run'.pc \in AfterCapture \cup {"category", "summary"}
             /\ run'.pc \in AfterCapture =>
                   /\ run'.attempt = run.attempt
                   /\ run'.call = run.call
                   /\ run'.captures >= run.captures
             /\ run'.pc \notin AfterCapture => run.pc = "returned"]_vars

\* the third decorator attempt of the orchestrator's second call captured
\* twice, the only two captures of the category
C24_Witness ==
    /\ Refactored
    /\ run.pc = "returned"
    /\ run.call = 2 /\ run.attempt = 2
    /\ run.catCaptures = 2
    /\ run.first.ran /\ run.retry.ran

----------------------------------------------------------------------------
(* Claims about main's exit code.                                          *)

ViaMain == Refactored /\ run.entry = "main"
MainReturned == ViaMain /\ run.pc = "ended"

\* C23: main returns 1 exactly when an exception left crawler.run() and 0 when
\* run() returned its results, which every run that completes does; in both
\* cases run() has called cleanup() before main sees the outcome.
C23_ExitCode ==
    /\ (ViaMain /\ run.pc # "ended") => run.exit_code = -1
    /\ (ViaMain /\ run.pc = "main") => run.cleaned
    /\ MainReturned =>
          /\ run.cleaned
          /\ run.exit_code \in {0, 1}
          /\ (run.exit_code = 1) = run.raised
          /\ run.summaryWritten => run.exit_code = 0
          /\ run.raised => (run.driver \notin run.live)

\* the restart before the second category failed: cleanup ran, main returned 1
C23_Witness ==
    /\ MainReturned
    /\ Len(run.targets) = 2 /\ run.i = 2
    /\ run.raised
    /\ ~run.summaryWritten
    /\ run.cleaned
    /\ run.exit_code = 1

----------------------------------------------------------------------------
(* Claims about the merged output files.                                   *)

\* C21 as stated: within one session, whatever calls are made on the crawler,
\* no merged output path is written more than once.
C21_WrittenOnce == \A c \in DOMAIN run.writes : run.writes[c] <= 1

====
